---- MODULE Spec2Model ----
(***************************************************************************)
(* scripts/count_tokens.py: count_tokens_in_jsonl.                         *)
(*                                                                         *)
(* One run of the script: the two start-up checks, the construction of the *)
(* API client, the pass over the lines of the JSONL file (one provider     *)
(* call per record) and the final report.  The console is the sequence     *)
(* `out`, the provider calls made so far are the sequence `calls`.         *)
(*                                                                         *)
(* The provider is the environment.  A call either returns a total-token   *)
(* count, raises APIError, or raises some other exception; an exception of *)
(* the call is taken to be none of json.JSONDecodeError, and a returned    *)
(* count is taken to be an integer.  The file, when it exists, is taken to *)
(* be readable UTF-8 text.                                                 *)
(***************************************************************************)
EXTENDS Integers, Sequences, FiniteSets

VARIABLES
    pc,             \* position in count_tokens_in_jsonl
    fileExists,     \* os.path.exists(file_path)
    GCP_PROJECT,    \* os.environ.get('GCP_PROJECT')
    GCP_LOCATION,   \* os.environ.get('GCP_LOCATION')
    client,         \* TRUE once genai.Client(...) has been constructed
    file,           \* the lines of the file, known once it is opened
    i,              \* index of the next line the iterator yields
    total_tokens,
    total_examples,
    calls,          \* the count_tokens calls issued, in order
    out,            \* what has been printed, in order
    exitCode        \* -1 while running, then the process's exit status

vars == <<pc, fileExists, GCP_PROJECT, GCP_LOCATION, client, file, i,
          total_tokens, total_examples, calls, out, exitCode>>

---------------------------------------------------------------------------
(* Bounds *)

MaxLines == 3
MaxParts == 2
MaxEntries == 2

(* Program constants *)

Epochs == 3

---------------------------------------------------------------------------
(* Input data: JSON values, lines, files *)

Unset == "<unset>"
EnvValues == {Unset, "", "my-project"}

NoTextPart == [hasText |-> FALSE, text |-> ""]
TextPart(t) == [hasText |-> TRUE, text |-> t]

\* k further parts after the first one of a part list
RECURSIVE LaterParts(_)
LaterParts(k) == IF k = 0 THEN <<>> ELSE <<TextPart("z")>> \o LaterParts(k - 1)

FirstParts == {NoTextPart, TextPart(""), TextPart("a"), TextPart("b")}

\* the "parts" lists of a content entry: empty (or absent), or a first part
\* followed by up to MaxParts - 1 later ones
PartLists ==
    {<<>>} \cup {<<p>> \o LaterParts(k) : p \in FirstParts, k \in 0..(MaxParts - 1)}

Entry(parts) == [parts |-> parts]

RECURSIVE SeqsUpTo(_, _)
SeqsUpTo(S, n) ==
    IF n = 0 THEN {<<>>}
    ELSE LET shorter == SeqsUpTo(S, n - 1)
         IN  shorter \cup {Append(s, x) : s \in {t \in shorter : Len(t) = n - 1}, x \in S}

ContentLists == SeqsUpTo({Entry(p) : p \in PartLists}, MaxEntries)

\* data['systemInstruction']: absent, an object without "parts", or an object
\* with a "parts" list
SysAbsent == [present |-> FALSE, hasParts |-> FALSE, parts |-> <<>>]
SysNoParts == [present |-> TRUE, hasParts |-> FALSE, parts |-> <<>>]
SysParts(parts) == [present |-> TRUE, hasParts |-> TRUE, parts |-> parts]

SysInstructions ==
    {SysAbsent, SysNoParts, SysParts(<<>>), SysParts(<<NoTextPart>>),
     SysParts(<<TextPart("")>>), SysParts(<<TextPart("s")>>),
     SysParts(<<TextPart("s"), TextPart("z")>>)}

JsonObject(sys, contents) == [isObj |-> TRUE, sys |-> sys, contents |-> contents]
\* a JSON text that is no object, such as 5
JsonScalar == [isObj |-> FALSE, sys |-> SysAbsent, contents |-> <<>>]

\* A line as the file iterator yields it: its text and whether whitespace
\* (the line terminator at least) surrounds the text.  The iterator never
\* yields a zero-length line, so a line of empty text has ws = TRUE.
JsonLine(v) == [ws |-> TRUE, kind |-> "json", value |-> v]
BlankLine == [ws |-> TRUE, kind |-> "empty", value |-> JsonScalar]
GarbageLine == [ws |-> TRUE, kind |-> "garbage", value |-> JsonScalar]
ScalarLine == JsonLine(JsonScalar)
RecordA == JsonLine(JsonObject(SysAbsent, <<Entry(<<TextPart("a")>>)>>))
RecordKeyError == JsonLine(JsonObject(SysAbsent, <<Entry(<<NoTextPart>>)>>))
\* the last line of a file that does not end in a line terminator
RecordNoNewline == [RecordA EXCEPT !.ws = FALSE]

RecordLines == {JsonLine(JsonObject(s, c)) : s \in SysInstructions, c \in ContentLists}
RepLines == {BlankLine, GarbageLine, ScalarLine, RecordA, RecordKeyError}

\* one-line files over every record shape, and files of up to MaxLines lines
\* over the representative lines
Files ==
    {<<l>> : l \in RecordLines \cup {RecordNoNewline}} \cup SeqsUpTo(RepLines, MaxLines)

\* total-token counts the provider may return
TokenCounts == {5, 1234, 400000}

---------------------------------------------------------------------------
(* The pure steps of the loop body *)

\* line.strip()
Strip(line) == [line EXCEPT !.ws = FALSE]

IsBlank_NoStrip(line) == line.kind = "empty" /\ ~line.ws
\* line = line.strip(); if not line: continue
IsBlank(line) == Strip(line).kind = "empty"

\* json.loads(line): the decoded value, or JSONDecodeError
JsonLoads(line) ==
    IF line.kind = "json" THEN [ok |-> TRUE, value |-> line.value]
    ELSE [ok |-> FALSE, value |-> JsonScalar]

\* data.get('systemInstruction', {}).get('parts', [{}])[0].get('text', ''):
\* IndexError on an empty "parts" list
SystemInstruction(data) ==
    IF ~data.sys.present \/ ~data.sys.hasParts THEN [ok |-> TRUE, text |-> ""]
    ELSE IF data.sys.parts = <<>> THEN [ok |-> FALSE, text |-> ""]
    ELSE [ok |-> TRUE,
          text |-> IF data.sys.parts[1].hasText THEN data.sys.parts[1].text ELSE ""]

PartText_Last(parts) == parts[Len(parts)]
\* content['parts'][0]
PartText(parts) == parts[1]

\* for content in contents: if content.get('parts'):
\*     text_to_count.append(content['parts'][0]['text'])      (KeyError without "text")
RECURSIVE AppendContents(_, _, _)
AppendContents(contents, k, acc) ==
    IF k > Len(contents) THEN [ok |-> TRUE, texts |-> acc]
    ELSE IF contents[k].parts = <<>> THEN AppendContents(contents, k + 1, acc)
    ELSE IF ~PartText(contents[k].parts).hasText THEN [ok |-> FALSE, texts |-> acc]
    ELSE AppendContents(contents, k + 1, Append(acc, PartText(contents[k].parts).text))

SystemTexts_Always(text) == <<text>>
\* text_to_count = []; if system_instruction: text_to_count.append(system_instruction)
SystemTexts(text) == IF text # "" THEN <<text>> ELSE <<>>

\* the list handed to count_tokens, or the exception the extraction raises
\* (AttributeError on a value that is no object)
ExtractTexts(data) ==
    IF ~data.isObj THEN [ok |-> FALSE, texts |-> <<>>]
    ELSE IF ~SystemInstruction(data).ok THEN [ok |-> FALSE, texts |-> <<>>]
    ELSE AppendContents(data.contents, 1, SystemTexts(SystemInstruction(data).text))

AddTokens_Overwrite(total, n) == n
\* total_tokens += response.total_tokens
AddTokens(total, n) == total + n

WarningNumber_PhysicalLine(examples, lineno) == lineno
\* f"Skipping line {total_examples + 1}: ..."
WarningNumber(examples, lineno) == examples + 1

EnvOk_EitherSet(project_id, location) ==
    ~(project_id \in {Unset, ""} /\ location \in {Unset, ""})
\* the negation of: not project_id or not location
EnvOk(project_id, location) ==
    ~(project_id \in {Unset, ""} \/ location \in {Unset, ""})

EstimatedCostTokens_Doubled(total) == total * 2
\* estimated_cost_tokens = total_tokens * 3
EstimatedCostTokens(total) == total * Epochs

\* f"{n:,}": the decimal digits in groups of three, as the groups' values
RECURSIVE FormatThousands(_)
FormatThousands(n) ==
    IF n < 1000 THEN <<n>> ELSE Append(FormatThousands(n \div 1000), n % 1000)

---------------------------------------------------------------------------
(* Console and provider calls *)

Msg(m, num) == [msg |-> m, num |-> num]

Call(lineno, texts, result, tokens) ==
    [line |-> lineno, texts |-> texts, result |-> result, tokens |-> tokens]

FinalOutput(examples, total) ==
    << Msg("report_rule", <<>>), Msg("report_title", <<>>), Msg("report_rule", <<>>),
       Msg("report_file", <<>>), Msg("report_examples", <<examples>>),
       Msg("report_tokens", FormatThousands(total)),
       Msg("report_estimate", FormatThousands(EstimatedCostTokens(total))),
       Msg("report_rule", <<>>) >>

\* print(...) of msgs, then sys.exit(1)
Abort(msgs) ==
    /\ out' = out \o msgs
    /\ pc' = "exit"
    /\ exitCode' = 1

---------------------------------------------------------------------------
(* The run *)

Init ==
    /\ pc = "check_file"
    /\ fileExists \in BOOLEAN
    /\ GCP_PROJECT \in EnvValues
    /\ GCP_LOCATION \in EnvValues
    /\ client = FALSE
    /\ file = <<>>
    /\ i = 1
    /\ total_tokens = 0
    /\ total_examples = 0
    /\ calls = <<>>
    /\ out = <<>>
    /\ exitCode = -1

CheckFileMissing ==
    /\ pc = "check_file"
    /\ ~fileExists
    /\ Abort(<<Msg("file_not_found", <<>>)>>)
    /\ UNCHANGED <<fileExists, GCP_PROJECT, GCP_LOCATION, client, file, i,
                   total_tokens, total_examples, calls>>

CheckFileOk ==
    /\ pc = "check_file"
    /\ fileExists
    /\ pc' = "check_env"
    /\ UNCHANGED <<fileExists, GCP_PROJECT, GCP_LOCATION, client, file, i,
                   total_tokens, total_examples, calls, out, exitCode>>

CheckEnvMissing ==
    /\ pc = "check_env"
    /\ ~EnvOk(GCP_PROJECT, GCP_LOCATION)
    /\ Abort(<<Msg("env_missing", <<>>), Msg("env_hint", <<>>)>>)
    /\ UNCHANGED <<fileExists, GCP_PROJECT, GCP_LOCATION, client, file, i,
                   total_tokens, total_examples, calls>>

CheckEnvOk ==
    /\ pc = "check_env"
    /\ EnvOk(GCP_PROJECT, GCP_LOCATION)
    /\ pc' = "init_client"
    /\ UNCHANGED <<fileExists, GCP_PROJECT, GCP_LOCATION, client, file, i,
                   total_tokens, total_examples, calls, out, exitCode>>

\* genai.Client(...) raises
InitClientFail ==
    /\ pc = "init_client"
    /\ Abort(<<Msg("client_init_error", <<>>), Msg("client_exception", <<>>)>>)
    /\ UNCHANGED <<fileExists, GCP_PROJECT, GCP_LOCATION, client, file, i,
                   total_tokens, total_examples, calls>>

InitClientOk ==
    /\ pc = "init_client"
    /\ client' = TRUE
    /\ out' = out \o <<Msg("counting", <<>>), Msg("rule", <<>>)>>
    /\ pc' = "open"
    /\ UNCHANGED <<fileExists, GCP_PROJECT, GCP_LOCATION, file, i,
                   total_tokens, total_examples, calls, exitCode>>

\* with open(file_path, 'r', encoding='utf-8') as f
OpenFile ==
    /\ pc = "open"
    /\ \E f \in Files : file' = f
    /\ i' = 1
    /\ pc' = "loop"
    /\ UNCHANGED <<fileExists, GCP_PROJECT, GCP_LOCATION, client,
                   total_tokens, total_examples, calls, out, exitCode>>

AtLine == pc = "loop" /\ i <= Len(file)

\* the line the iterator yields, stripped, and what the loop body makes of it
Line == Strip(file[i])
Decoded == JsonLoads(Line)
Extracted == ExtractTexts(Decoded.value)

\* if not line: continue
LineBlank ==
    /\ AtLine
    /\ IsBlank(file[i])
    /\ i' = i + 1
    /\ UNCHANGED <<pc, fileExists, GCP_PROJECT, GCP_LOCATION, client, file,
                   total_tokens, total_examples, calls, out, exitCode>>

LineInvalidJSON_Fatal ==
    /\ AtLine
    /\ ~IsBlank(file[i])
    /\ ~Decoded.ok
    /\ Abort(<<Msg("skipping_line", <<WarningNumber(total_examples, i)>>)>>)
    /\ UNCHANGED <<fileExists, GCP_PROJECT, GCP_LOCATION, client, file, i,
                   total_tokens, total_examples, calls>>
\* json.loads raises: except json.JSONDecodeError: print(...), next line
LineInvalidJSON ==
    /\ AtLine
    /\ ~IsBlank(file[i])
    /\ ~Decoded.ok
    /\ out' = Append(out, Msg("skipping_line", <<WarningNumber(total_examples, i)>>))
    /\ i' = i + 1
    /\ UNCHANGED <<pc, fileExists, GCP_PROJECT, GCP_LOCATION, client, file,
                   total_tokens, total_examples, calls, exitCode>>

\* the extraction raises (AttributeError, IndexError, KeyError):
\* except Exception: print(...), sys.exit(1)
LineExtractionError ==
    /\ AtLine
    /\ ~IsBlank(file[i])
    /\ Decoded.ok
    /\ ~Extracted.ok
    /\ Abort(<<Msg("unexpected_error", <<>>)>>)
    /\ UNCHANGED <<fileExists, GCP_PROJECT, GCP_LOCATION, client, file, i,
                   total_tokens, total_examples, calls>>

\* the record's texts reach the call
CallReady ==
    /\ AtLine
    /\ ~IsBlank(file[i])
    /\ Decoded.ok
    /\ Extracted.ok

LineCounted_SkipEmptyCall ==
    /\ CallReady
    /\ \E n \in TokenCounts :
          IF Extracted.texts = <<>>
          THEN /\ calls' = calls
               /\ total_tokens' = total_tokens
          ELSE /\ calls' = Append(calls, Call(i, Extracted.texts, "ok", n))
               /\ total_tokens' = AddTokens(total_tokens, n)
    /\ total_examples' = total_examples + 1
    /\ i' = i + 1
    /\ UNCHANGED <<pc, fileExists, GCP_PROJECT, GCP_LOCATION, client, file, out, exitCode>>
\* count_tokens returns: total_tokens += response.total_tokens; total_examples += 1
LineCounted ==
    /\ CallReady
    /\ \E n \in TokenCounts :
          /\ calls' = Append(calls, Call(i, Extracted.texts, "ok", n))
          /\ total_tokens' = AddTokens(total_tokens, n)
    /\ total_examples' = total_examples + 1
    /\ i' = i + 1
    /\ UNCHANGED <<pc, fileExists, GCP_PROJECT, GCP_LOCATION, client, file, out, exitCode>>

LineAPIError_Continue ==
    /\ CallReady
    /\ calls' = Append(calls, Call(i, Extracted.texts, "APIError", 0))
    /\ out' = out \o <<Msg("api_error", <<total_examples + 1>>), Msg("api_exception", <<>>)>>
    /\ i' = i + 1
    /\ UNCHANGED <<pc, fileExists, GCP_PROJECT, GCP_LOCATION, client, file,
                   total_tokens, total_examples, exitCode>>
\* count_tokens raises APIError: except APIError: print(...), print(e), sys.exit(1)
LineAPIError ==
    /\ CallReady
    /\ calls' = Append(calls, Call(i, Extracted.texts, "APIError", 0))
    /\ Abort(<<Msg("api_error", <<total_examples + 1>>), Msg("api_exception", <<>>)>>)
    /\ UNCHANGED <<fileExists, GCP_PROJECT, GCP_LOCATION, client, file, i,
                   total_tokens, total_examples>>

LineCallException_Retry ==
    /\ CallReady
    /\ calls' = Append(calls, Call(i, Extracted.texts, "Exception", 0))
    /\ out' = Append(out, Msg("unexpected_error", <<>>))
    /\ UNCHANGED <<pc, fileExists, GCP_PROJECT, GCP_LOCATION, client, file, i,
                   total_tokens, total_examples, exitCode>>
\* count_tokens raises something else: except Exception: print(...), sys.exit(1)
LineCallException ==
    /\ CallReady
    /\ calls' = Append(calls, Call(i, Extracted.texts, "Exception", 0))
    /\ Abort(<<Msg("unexpected_error", <<>>)>>)
    /\ UNCHANGED <<fileExists, GCP_PROJECT, GCP_LOCATION, client, file, i,
                   total_tokens, total_examples>>

\* the iterator is exhausted: the final report, and the script ends
Report ==
    /\ pc = "loop"
    /\ i > Len(file)
    /\ out' = out \o FinalOutput(total_examples, total_tokens)
    /\ pc' = "done"
    /\ exitCode' = 0
    /\ UNCHANGED <<fileExists, GCP_PROJECT, GCP_LOCATION, client, file, i,
                   total_tokens, total_examples, calls>>

Next ==
    \/ CheckFileMissing
    \/ CheckFileOk
    \/ CheckEnvMissing
    \/ CheckEnvOk
    \/ InitClientFail
    \/ InitClientOk
    \/ OpenFile
    \/ LineBlank
    \/ LineInvalidJSON
    \/ LineExtractionError
    \/ LineCounted
    \/ LineAPIError
    \/ LineCallException
    \/ Report

Spec == Init /\ [][Next]_vars

---------------------------------------------------------------------------
(* The loop as a function of the lines and of the provider's answers *)

\* The loop body run over `lines` from line k on, the provider answering its
\* calls with resp[1], resp[2], ... in turn.  status is "done" when the lines
\* are exhausted, "exit" after sys.exit(1), "waiting" when the next answer is
\* not in resp.
RECURSIVE RunLines(_, _, _, _)
RunLines(lines, k, resp, acc) ==
    IF k > Len(lines) THEN [acc EXCEPT !.status = "done"]
    ELSE IF IsBlank(lines[k]) THEN RunLines(lines, k + 1, resp, acc)
    ELSE IF ~JsonLoads(Strip(lines[k])).ok
         THEN RunLines(lines, k + 1, resp,
                       [acc EXCEPT !.warnings = Append(@, WarningNumber(acc.examples, k))])
    ELSE IF ~ExtractTexts(JsonLoads(Strip(lines[k])).value).ok
         THEN [acc EXCEPT !.status = "exit"]
    ELSE IF acc.ncalls >= Len(resp) THEN [acc EXCEPT !.status = "waiting"]
    ELSE LET answer == resp[acc.ncalls + 1]
         IN  IF answer.result = "ok"
             THEN RunLines(lines, k + 1, resp,
                           [acc EXCEPT !.examples = @ + 1,
                                       !.tokens = AddTokens(@, answer.tokens),
                                       !.ncalls = @ + 1])
             ELSE [acc EXCEPT !.ncalls = @ + 1, !.status = "exit"]

\* total_tokens = 0; total_examples = 0, and the loop
CountLines(lines, resp) ==
    RunLines(lines, 1, resp,
             [examples |-> 0, tokens |-> 0, warnings |-> <<>>, ncalls |-> 0,
              status |-> "loop"])

---------------------------------------------------------------------------
(* Reading the state *)

Terminated == pc \in {"done", "exit"}

\* the numbers shown in the messages of kind m
Shown(m) == {out[k].num : k \in {j \in DOMAIN out : out[j].msg = m}}
Kinds == {out[k].msg : k \in DOMAIN out}

\* the number a thousands-separated numeral denotes
RECURSIVE ParseThousands(_)
ParseThousands(groups) ==
    IF groups = <<>> THEN 0
    ELSE ParseThousands(SubSeq(groups, 1, Len(groups) - 1)) * 1000 + groups[Len(groups)]

RECURSIVE SumTokens(_)
SumTokens(cs) == IF cs = <<>> THEN 0 ELSE cs[1].tokens + SumTokens(Tail(cs))

ReportKinds ==
    {"report_rule", "report_title", "report_file", "report_examples",
     "report_tokens", "report_estimate"}
Diagnostics ==
    {"file_not_found", "env_missing", "env_hint", "client_init_error",
     "client_exception", "api_error", "api_exception", "unexpected_error"}

\* the text of the line is empty once whitespace is trimmed
BlankText(l) == l.kind = "empty"
\* the text of the line is not valid JSON
InvalidText(l) == l.kind = "garbage"
\* the text of the line is valid JSON
ValidText(l) == l.kind = "json"

\* the decoded value has the documented record format: an object whose
\* systemInstruction, when it has a "parts" list, has a non-empty one, and
\* whose content entries with parts have a text in the first part
Conforming(l) ==
    /\ ValidText(l)
    /\ l.value.isObj
    /\ (l.value.sys.present /\ l.value.sys.hasParts) => l.value.sys.parts # <<>>
    /\ \A e \in DOMAIN l.value.contents :
          l.value.contents[e].parts # <<>> => l.value.contents[e].parts[1].hasText

NoCallFailed == \A c \in DOMAIN calls : calls[c].result = "ok"

\* the file with its blank lines removed
NonBlank(f) == SelectSeq(f, LAMBDA l : ~BlankText(l))

WarningsShown ==
    LET ws == SelectSeq(out, LAMBDA m : m.msg = "skipping_line")
    IN  [k \in 1..Len(ws) |-> ws[k].num[1]]

---------------------------------------------------------------------------
(* C1 *)

C1_Outcome ==
    /\ pc = "done"
    /\ Shown("report_examples") = {<<Len(file)>>}
    /\ Len(calls) = Len(file)
    /\ \E t \in Shown("report_tokens") :
          /\ Shown("report_tokens") = {t}
          /\ ParseThousands(t) = SumTokens(calls)

\* C1 as stated: a file of N non-blank lines of valid JSON, the provider
\* answering every call, ends in the final report with Total Examples = N
\* and Total Training Tokens = the sum of the counts returned.
C1_AsStated ==
    /\ (client /\ pc = "loop") => ENABLED Next
    /\ (Terminated /\ client /\ NoCallFailed /\ \A k \in DOMAIN file : ValidText(file[k]))
          => C1_Outcome

\* C1 amended: a file of N non-blank lines each decoding to a record of the
\* documented format, the provider answering every call, ends in the final
\* report with Total Examples = N and Total Training Tokens = the sum of the
\* counts returned for the N lines.
C1_ConformingFileCounted ==
    /\ (client /\ pc = "loop") => ENABLED Next
    /\ (Terminated /\ client /\ NoCallFailed /\ \A k \in DOMAIN file : Conforming(file[k]))
          => C1_Outcome

C1_Witness ==
    /\ pc = "done"
    /\ Len(file) = MaxLines
    /\ \A k \in DOMAIN file : Conforming(file[k])
    /\ total_examples = MaxLines
    /\ \E a, b \in DOMAIN calls : calls[a].tokens # calls[b].tokens

---------------------------------------------------------------------------
(* C2 *)

C2_Step ==
    (AtLine /\ InvalidText(file[i])) =>
        /\ calls' = calls
        /\ total_tokens' = total_tokens
        /\ total_examples' = total_examples
        /\ Len(out') = Len(out) + 1
        /\ SubSeq(out', 1, Len(out)) = out
        /\ out'[Len(out')].msg = "skipping_line"
        /\ pc' = "loop"
        /\ exitCode' = -1
        /\ i' = i + 1

C2_LaterLinesCounted ==
    (pc = "done") =>
        /\ \A j, k \in DOMAIN file :
              (j < k /\ InvalidText(file[j]) /\ ValidText(file[k])) =>
                  \E c \in DOMAIN calls : calls[c].line = k /\ calls[c].result = "ok"
        /\ Shown("report_examples") = {<<Cardinality({k \in DOMAIN file : ValidText(file[k])})>>}

---------------------------------------------------------------------------
(* C3 *)

BadStart ==
    \/ ~fileExists
    \/ GCP_PROJECT \in {Unset, ""}
    \/ GCP_LOCATION \in {Unset, ""}

\* C3: with the file missing, or GCP_PROJECT or GCP_LOCATION unset or empty,
\* the process aborts with a non-zero status before the client is constructed
\* and without a single token-counting call.
C3_AbortBeforeClient ==
    BadStart =>
        /\ pc \in {"check_file", "check_env", "exit"}
        /\ pc # "exit" => ENABLED Next
        /\ pc = "exit" => exitCode > 0
        /\ exitCode # 0
        /\ ~client
        /\ calls = <<>>

C3_Witness ==
    /\ pc = "exit"
    /\ fileExists
    /\ GCP_PROJECT = "my-project"
    /\ GCP_LOCATION = ""
    /\ exitCode = 1

---------------------------------------------------------------------------
(* C4 *)

ReportShown == Kinds \cap ReportKinds # {}

\* each fatal cause, read from the state, and the diagnostic it must show
C4_FatalPaths ==
    /\ (~fileExists /\ pc # "check_file")
          => (pc = "exit" /\ "file_not_found" \in Kinds)
    /\ (fileExists /\ BadStart /\ pc \notin {"check_file", "check_env"})
          => (pc = "exit" /\ "env_missing" \in Kinds)
    /\ (~BadStart /\ ~client /\ pc \notin {"check_file", "check_env", "init_client"})
          => (pc = "exit" /\ "client_init_error" \in Kinds)
    /\ \A c \in DOMAIN calls :
          /\ calls[c].result = "APIError" => (pc = "exit" /\ "api_error" \in Kinds)
          /\ calls[c].result = "Exception" => (pc = "exit" /\ "unexpected_error" \in Kinds)
    /\ \A k \in 1..(i - 1) : ValidText(file[k]) => Conforming(file[k])
    /\ pc = "done" => i > Len(file)
    /\ (Terminated /\ i <= Len(file) /\ ValidText(file[i]) /\ ~Conforming(file[i]))
          => (pc = "exit" /\ "unexpected_error" \in Kinds)

\* C4: every fatal path prints a diagnostic and ends with a non-zero status
\* without any line of the final report; the report is printed, whole, only
\* by runs that end with status 0.
C4_FatalPathsPrintNoReport ==
    /\ C4_FatalPaths
    /\ pc = "exit" =>
          /\ exitCode > 0
          /\ out # <<>>
          /\ out[Len(out)].msg \in Diagnostics
          /\ ~ReportShown
    /\ ReportShown =>
          /\ pc = "done"
          /\ exitCode = 0
          /\ SubSeq(out, Len(out) - 7, Len(out)) = FinalOutput(total_examples, total_tokens)
    /\ exitCode = 0 => pc = "done"
    /\ pc = "done" => ReportShown

C4_Witness ==
    /\ pc = "exit"
    /\ Len(calls) >= 2
    /\ calls[Len(calls)].result = "APIError"
    /\ total_examples >= 1
    /\ ~ReportShown

---------------------------------------------------------------------------
(* C5 *)

---------------------------------------------------------------------------
(* C6 *)

\* C6: in a run that reaches the final report, every non-blank line that
\* decoded as JSON has exactly one call, and there are no other calls.
C6_OneCallPerDecodedLine ==
    pc = "done" =>
        /\ Len(calls) = Cardinality({k \in DOMAIN file : ValidText(file[k])})
        /\ \A k \in DOMAIN file :
              ValidText(file[k]) =>
                  Cardinality({c \in DOMAIN calls : calls[c].line = k}) = 1
        /\ \A c \in DOMAIN calls : ValidText(file[calls[c].line])

C6_Witness ==
    /\ pc = "done"
    /\ Len(calls) = 2
    /\ Len(file) = 3
    /\ \E k \in DOMAIN file : InvalidText(file[k])

---------------------------------------------------------------------------
(* C7 *)

C7_Step ==
    (AtLine /\ BlankText(file[i])) =>
        /\ calls' = calls
        /\ total_tokens' = total_tokens
        /\ total_examples' = total_examples
        /\ out' = out
        /\ pc' = pc
        /\ exitCode' = exitCode
        /\ i' = i + 1

\* the run ended as a run over the file without its blank lines ends, given
\* the same answers of the provider
C7_SameWithoutBlanks ==
    (Terminated /\ client) =>
        CountLines(NonBlank(file), calls) =
            [examples |-> total_examples, tokens |-> total_tokens,
             warnings |-> WarningsShown, ncalls |-> Len(calls), status |-> pc]

\* C7: a blank line causes no call, changes neither counter and prints
\* nothing; with or without the blank lines of a file, the counts reported
\* are the same.
C7_BlankLinesChangeNothing == [][C7_Step]_vars /\ [](C7_SameWithoutBlanks)

C7_Witness ==
    /\ pc = "done"
    /\ Len(file) = 3
    /\ BlankText(file[2])
    /\ total_examples = 2
    /\ Len(NonBlank(file)) = 2

---------------------------------------------------------------------------
(* C8 *)

\* C8: the estimate printed in the final report is exactly 3 times the total
\* printed, which is total_tokens at the end of the file.
C8_EstimateIsThreeTimesTotal ==
    pc = "done" =>
        \E t \in Shown("report_tokens"), e \in Shown("report_estimate") :
            /\ Shown("report_tokens") = {t}
            /\ Shown("report_estimate") = {e}
            /\ ParseThousands(t) = total_tokens
            /\ ParseThousands(e) = 3 * ParseThousands(t)
            /\ \A g \in DOMAIN t : t[g] \in 0..999
            /\ \A g \in DOMAIN e : e[g] \in 0..999

C8_Witness ==
    /\ pc = "done"
    /\ total_tokens > 1000
    /\ \E e \in Shown("report_estimate") : Len(e) = 3

---------------------------------------------------------------------------
(* C9 *)

DecodedBefore == Cardinality({k \in 1..(i - 1) : ValidText(file[k])})

C9_Step ==
    (AtLine /\ InvalidText(file[i])) =>
        out' = Append(out, Msg("skipping_line", <<DecodedBefore + 1>>))

---------------------------------------------------------------------------
(* C10 *)

\* the record a call was made for
RecordOf(c) == file[calls[c].line].value

C10_SystemText(v) ==
    IF v.sys.present /\ v.sys.hasParts /\ v.sys.parts # <<>> /\ v.sys.parts[1].hasText
    THEN v.sys.parts[1].text
    ELSE ""

\* the first text part of each content entry that has parts, in order
C10_FirstTexts(v) ==
    LET withParts == SelectSeq(v.contents, LAMBDA e : e.parts # <<>>)
    IN  [k \in 1..Len(withParts) |-> withParts[k].parts[1].text]

\* no text submitted is that of a second or later part
C10_NoLaterPart(c) ==
    \A t \in DOMAIN calls[c].texts :
        /\ \A e \in DOMAIN RecordOf(c).contents :
              \A q \in 2..Len(RecordOf(c).contents[e].parts) :
                  calls[c].texts[t] # RecordOf(c).contents[e].parts[q].text
        /\ \A q \in 2..Len(RecordOf(c).sys.parts) :
              calls[c].texts[t] # RecordOf(c).sys.parts[q].text

\* C10 as stated: the list submitted is the system instruction text (empty
\* when absent) followed by the first text part of each content entry, in
\* order, and no later part.
C10_AsStated ==
    \A c \in DOMAIN calls :
        /\ calls[c].texts = <<C10_SystemText(RecordOf(c))>> \o C10_FirstTexts(RecordOf(c))
        /\ C10_NoLaterPart(c)

\* C10 amended: the list submitted is the system instruction text when that
\* text is not empty, and nothing for it when it is absent or empty, followed
\* by the first text part of each content entry that has parts, in order, and
\* no later part.
C10_SubmittedTexts ==
    \A c \in DOMAIN calls :
        /\ calls[c].texts =
              (IF C10_SystemText(RecordOf(c)) = "" THEN <<>>
               ELSE <<C10_SystemText(RecordOf(c))>>) \o C10_FirstTexts(RecordOf(c))
        /\ C10_NoLaterPart(c)

C10_Witness ==
    \E c \in DOMAIN calls :
        /\ calls[c].texts = <<"s", "a", "b">>
        /\ Len(RecordOf(c).contents[1].parts) = 2
        /\ Len(RecordOf(c).sys.parts) = 2

====
